---- MODULE Spec2Model ----
(***************************************************************************)
(* A model of radal's filter primitives (src/filters/mod.rs) and of its    *)
(* command line front end (src/cli.rs, src/lib.rs).                        *)
(*                                                                         *)
(* Indices are 0-based as in the Rust source; TLA+ sequences are 1-based,  *)
(* so element i of a Rust vector v is v[i + 1] here.                       *)
(***************************************************************************)
EXTENDS Integers, Sequences, FiniteSets, TLC

VARIABLES
    data,      \* the Array2<T> handed to average_traces
    window,    \* the usize window handed to both reductions
    averaged,  \* what average_traces returned ("pending" before the call)
    v,         \* the Vec<T> handed to window_subset_vec
    subset,    \* what window_subset_vec returned ("pending" before the call)
    entry,     \* who built the Args: "main" (clap) or "run_cli" (Python)
    args,      \* the cli::Args handed to args_to_action
    action,    \* the CliAction args_to_action returned ("pending" before)
    stdout,    \* the lines args_to_action printed
    ran,       \* the RunParams gpr::run was called with, if it was
    result,    \* what main / run_cli returned ("pending" before)
    abspc,     \* where abslog is: "abs", "quantiles", "log", "done", "panicked"
    absdata,   \* abslog's array, mutated in place
    minval,    \* abslog's floor
    tried,     \* the <<quantile, new_min>> pairs of abslog's loop so far
    minval_log10,  \* the floor handed to siglog
    siglogged  \* siglog's array after the call ("pending" before)

filterVars == <<data, window, averaged, v, subset>>

cliVars == <<entry, args, action, stdout, ran, result>>

absVars == <<abspc, absdata, minval, tried>>

sigVars == <<minval_log10, siglogged>>

vars == <<data, window, averaged, v, subset, entry, args, action, stdout, ran, result,
          abspc, absdata, minval, tried, minval_log10, siglogged>>

(***************************************************************************)
(* Bounds of the model.                                                    *)
(***************************************************************************)
MaxRows == 2
MaxCols == 4
MaxLen == 7
MaxWindow == 8
MaxSteps == 2
MaxCells == 4
MaxSigCells == 2
MaxExp == 4

\* The sample values the arrays are filled with.
Samples == {-1, 2}

\* The state of a call that has not been made: every outcome is a record
\* whose field st tells which kind it is.
Pending == [st |-> "pending"]

Unused == [st |-> "unused"]

(***************************************************************************)
(* Numbers.  A value of the float type T is modelled as an exact fraction  *)
(* <<numerator, denominator>> in lowest terms with a positive denominator. *)
(***************************************************************************)
Min(a, b) == IF a <= b THEN a ELSE b

Abs(n) == IF n < 0 THEN -n ELSE n

RECURSIVE Gcd(_, _)
Gcd(a, b) == IF b = 0 THEN a ELSE Gcd(b, a % b)

Frac(n, d) ==
    LET g == Gcd(Abs(n), d)
    IN  <<n \div g, d \div g>>

\* T::zero()
Zero == <<0, 1>>

\* T::from_usize / a literal sample
FromInt(n) == <<n, 1>>

FracAdd(a, b) == Frac(a[1] * b[2] + b[1] * a[2], a[2] * b[2])

\* a / T::from_usize(n), n > 0
FracDivInt(a, n) == Frac(a[1], a[2] * n)

\* usize::div_ceil
DivCeil(a, b) == (a + b - 1) \div b

(***************************************************************************)
(* Array2<T>: the shape and the rows (each a sequence of ncols values).    *)
(***************************************************************************)
Array2(nrows, ncols, rows) == [nrows |-> nrows, ncols |-> ncols, rows |-> rows]

\* Array2::<T>::zeros((nrows, ncols))
Zeros(nrows, ncols) ==
    Array2(nrows, ncols, [r \in 1..nrows |-> [c \in 1..ncols |-> Zero]])

\* data.slice_axis(Axis(1), Slice::new(start, Some(end), 1)): columns start..end-1
SliceAxis1(arr, start, end) ==
    Array2(arr.nrows, end - start,
           [r \in 1..arr.nrows |-> [c \in 1..(end - start) |-> arr.rows[r][start + c]]])

RECURSIVE SumSeq(_)
SumSeq(s) == IF s = <<>> THEN Zero ELSE FracAdd(s[1], SumSeq(Tail(s)))

None == [some |-> FALSE]
Some(x) == [some |-> TRUE, value |-> x]

\* view.mean_axis(Axis(1)): None when the axis has length 0, else the
\* row-wise sum divided by the axis length
MeanAxis1(view) ==
    IF view.ncols = 0
    THEN None
    ELSE Some([r \in 1..view.nrows |-> FracDivInt(SumSeq(view.rows[r]), view.ncols)])

\* averaged.column_mut(i).assign(&col)
AssignColumn(arr, i, col) ==
    Array2(arr.nrows, arr.ncols,
           [r \in 1..arr.nrows |->
               [c \in 1..arr.ncols |-> IF c = i + 1 THEN col[r] ELSE arr.rows[r][c]]])

Ok(x) == [st |-> "ok", value |-> x]
Err(msg) == [st |-> "err", err |-> msg]

(***************************************************************************)
(* average_traces                                                          *)
(***************************************************************************)
\* The body of `for i in 0..new_ncols`, from iteration i on.
RECURSIVE AverageLoop(_, _, _, _)
AverageLoop(arr, w, i, acc) ==
    IF i >= acc.ncols
    THEN Ok(acc)
    ELSE LET start == i * w
         IN  IF start >= arr.ncols
             THEN Ok(acc)
             ELSE LET end == Min(start + w, arr.ncols)
                      mean == MeanAxis1(SliceAxis1(arr, start, end))
                  IN  IF ~mean.some
                      THEN Err(<<"Failure in averaging">>)
                      ELSE AverageLoop(arr, w, i + 1, AssignColumn(acc, i, mean.value))

\* A column count rounded down instead of up.
NewNcolsFloor(ncols, w) == ncols \div w

\* ncols.div_ceil(window)
NewNcols(ncols, w) == DivCeil(ncols, w)

\* The window check off by one: a window of 1 is let through.
WindowTooSmallOffByOne(w) == w < 1

WindowTooSmall(w) == w <= 1

WindowTooLarge(w, ncols) == w > ncols

AverageTraces(arr, w) ==
    IF WindowTooSmall(w)
    THEN Err(<<"Window size (", w, ") needs to be >= 2">>)
    ELSE IF WindowTooLarge(w, arr.ncols)
         THEN Err(<<"Averaging window (", w, ") is larger than the data width (",
                    arr.ncols, ")">>)
         ELSE AverageLoop(arr, w, 0, Zeros(arr.nrows, NewNcols(arr.ncols, w)))

(***************************************************************************)
(* window_subset_vec                                                       *)
(***************************************************************************)
Returned(x) == [st |-> "returned", value |-> x]
Panicked(msg) == [st |-> "panicked", msg |-> msg]

\* (width - 1) / 2
MidOffset(width) == (width - 1) \div 2

\* The body of `for i in 0..n_windows`, from iteration i on.
RECURSIVE KeepIndices(_, _, _, _, _)
KeepIndices(len, w, n_windows, i, indices) ==
    IF i >= n_windows
    THEN indices
    ELSE LET start == i * w
         IN  IF start >= len
             THEN indices
             ELSE LET end == Min(start + w, len)
                      width == end - start
                      idx == start + MidOffset(width)
                  IN  KeepIndices(len, w, n_windows, i + 1, Append(indices, idx))

\* insertion into an ascending sequence
RECURSIVE Insert(_, _)
Insert(x, s) ==
    IF s = <<>> THEN <<x>>
    ELSE IF x <= s[1] THEN <<x>> \o s
    ELSE <<s[1]>> \o Insert(x, Tail(s))

\* indices.sort_unstable()
RECURSIVE SortAscending(_)
SortAscending(s) == IF s = <<>> THEN <<>> ELSE Insert(s[1], SortAscending(Tail(s)))

\* Vec::reverse
Reverse(s) == [k \in 1..Len(s) |-> s[Len(s) + 1 - k]]

\* Vec::remove(idx) on a vector of the given contents: what is left
RemoveAt(s, idx) == SubSeq(s, 1, idx) \o SubSeq(s, idx + 2, Len(s))

\* `for idx in indices { new_vec.push(v.remove(idx)) }`; Vec::remove panics
\* when idx is out of bounds.
RECURSIVE RemoveLoop(_, _, _)
RemoveLoop(vec, indices, new_vec) ==
    IF indices = <<>>
    THEN Returned(new_vec)
    ELSE LET idx == indices[1]
         IN  IF idx >= Len(vec)
             THEN Panicked(<<"removal index (is ", idx, ") should be < len (is ",
                             Len(vec), ")">>)
             ELSE RemoveLoop(RemoveAt(vec, idx), Tail(indices),
                             Append(new_vec, vec[idx + 1]))

\* The assertion off by one: a window of 1 is refused.
WindowAssertedOffByOne(w) == w >= 2

\* assert!(window >= 1, ...)
WindowAsserted(w) == w >= 1

\* A window count rounded down instead of up.
NWindowsFloor(len, w) == len \div w

\* len.div_ceil(window)
NWindows(len, w) == DivCeil(len, w)

\* The removal loop run in ascending order (the reverse forgotten).
RemovalOrderAscending(indices) == SortAscending(indices)

\* indices.sort_unstable(); indices.reverse()
RemovalOrder(indices) == Reverse(SortAscending(indices))

WindowSubsetVec(vec, w) ==
    IF ~WindowAsserted(w)
    THEN Panicked(<<"window must be >= 1">>)
    ELSE LET len == Len(vec)
         IN  IF len = 0
             THEN Returned(<<>>)
             ELSE LET n_windows == NWindows(len, w)
                      indices == KeepIndices(len, w, n_windows, 0, <<>>)
                      removed == RemoveLoop(vec, RemovalOrder(indices), <<>>)
                  IN  IF removed.st = "panicked"
                      THEN removed
                      ELSE Returned(Reverse(removed.value))

(***************************************************************************)
(* The command line front end.  Strings that are searched (step tokens and *)
(* registry names) are sequences of characters; the others are atoms.      *)
(***************************************************************************)
\* str::contains
Contains(s, sub) ==
    \E k \in 0..(Len(s) - Len(sub)) : SubSeq(s, k + 1, k + Len(sub)) = sub

NameAbslog == <<"a", "b", "s", "l", "o", "g">>
NameSiglog == <<"s", "i", "g", "l", "o", "g">>
NameAverageTraces == <<"a", "v", "e", "r", "a", "g", "e", "_", "t", "r", "a", "c", "e", "s">>
NameCorrectTopography == <<"c", "o", "r", "r", "e", "c", "t", "_", "t", "o", "p", "o", "g", "r", "a", "p", "h", "y">>

\* gpr::all_available_steps(): [name, description] pairs
AllAvailableSteps ==
    << <<NameAbslog, "log10 of the absolute values">>,
       <<NameSiglog, "sign-preserving log10">>,
       <<NameAverageTraces, "average traces in windows">>,
       <<NameCorrectTopography, "correct for topography">> >>

\* gpr::default_processing_profile()
DefaultProcessingProfile == <<NameSiglog, NameAverageTraces \o <<":", "5">> >>

\* The step tokens a user writes.
Tokens ==
    { NameAbslog,
      NameAverageTraces \o <<":", "5">>,
      <<"n", "o", "n", "e", "x", "i", "s", "t", "e", "n", "t", "_", "s", "t", "e", "p">>,
      <<"s", "i", "g">> }

\* The step files on disk: a readable one and one that cannot be read.
StepFiles == {"steps.txt", "unreadable.txt"}

StepFileContent == <<NameAbslog, NameSiglog>>

Inline(tokens) == [kind |-> "inline", tokens |-> tokens]
StepFile(path) == [kind |-> "file", path |-> path]

\* tools::parse_step_list: the tokens of an inline comma-separated list or of
\* a newline-separated step file; an error when the file cannot be read
ParseStepList(steps) ==
    IF steps.kind = "inline"
    THEN Ok(steps.tokens)
    ELSE IF steps.path = "steps.txt"
         THEN Ok(StepFileContent)
         ELSE Err(<<"could not read the step file ", steps.path>>)

\* parse_duration::parse
ParseDuration(text) ==
    IF text = "10 min" THEN Ok(600) ELSE Err(<<"UnknownUnit">>)

\* glob::glob over the files on disk: a malformed pattern is a PatternError;
\* otherwise the matches, each a path or a GlobError for an unreadable one
Glob(pattern) ==
    CASE pattern = "[" -> Err(<<"PatternError">>)
      [] pattern = "missing/*.rd3" -> Ok(<<>>)
      [] pattern = "line1.rd3" -> Ok(<<Ok("line1.rd3")>>)
      [] pattern = "*.rd3" -> Ok(<<Ok("line1.rd3"), Ok("line2.rd3")>>)
      [] pattern = "locked/*.rd3" -> Ok(<<Err(<<"GlobError">>)>>)

Patterns == {"[", "missing/*.rd3", "line1.rd3", "*.rd3", "locked/*.rd3"}

\* CliAction, and the panic of an unwrap
Run(params) == [st |-> "Run", params |-> params]
Error(message) == [st |-> "Error", message |-> message]
Done == [st |-> "Done"]
Panic(what) == [st |-> "panic", what |-> what]

\* what args_to_action hands back: the action and the lines printed
Outcome(act, out) == [action |-> act, out |-> out]

\* "-".repeat(n)
Dashes(n) == [k \in 1..n |-> "-"]

\* the lines of --show-all-steps
ShowAllSteps ==
    Outcome(Done,
            << <<"Name\t\tDescription">> >> \o
            [k \in 1..Len(AllAvailableSteps) |->
                <<AllAvailableSteps[k][1], Dashes(Len(AllAvailableSteps[k][1])),
                  AllAvailableSteps[k][2]>>])

\* the lines of --show-default
ShowDefault ==
    Outcome(Done, [k \in 1..Len(DefaultProcessingProfile) |-> <<DefaultProcessingProfile[k]>>])

\* The topographic profile without the correct_topography step.
DefaultWithTopoNotPushed == DefaultProcessingProfile

\* default_processing_profile() with "correct_topography" pushed
DefaultWithTopo == Append(DefaultProcessingProfile, NameCorrectTopography)

NoStepsNotice == <<"No processing steps specified. Saving raw data.">>

\* `let steps = match args.info { ... }`: the step list, the lines printed,
\* or the error of parse_step_list
ResolveSteps(a) ==
    IF a.info
    THEN [st |-> "ok", value |-> <<>>, out |-> <<>>]
    ELSE IF a.default_with_topo
         THEN [st |-> "ok", value |-> DefaultWithTopo, out |-> <<>>]
         ELSE IF a.default
              THEN [st |-> "ok", value |-> DefaultProcessingProfile, out |-> <<>>]
              ELSE IF a.steps.some
                   THEN LET parsed == ParseStepList(a.steps.value)
                        IN  IF parsed.st = "ok"
                            THEN [st |-> "ok", value |-> parsed.value, out |-> <<>>]
                            ELSE [st |-> "err", err |-> parsed.err]
                   ELSE [st |-> "ok", value |-> <<>>, out |-> <<NoStepsNotice>>]

\* A step accepted only when it is a registry name itself.
StepRecognizedExactly(step) ==
    \E k \in 1..Len(AllAvailableSteps) : step = AllAvailableSteps[k][1]

\* allowed_steps.iter().any(|allowed| step.contains(allowed))
StepRecognized(step) ==
    \E k \in 1..Len(AllAvailableSteps) : Contains(step, AllAvailableSteps[k][1])

\* `for step in &steps { if !... { return Error } }`: the first step that is
\* not recognized, if any
RECURSIVE FirstUnrecognized(_)
FirstUnrecognized(steps) ==
    IF steps = <<>> THEN None
    ELSE IF ~StepRecognized(steps[1]) THEN Some(steps[1])
    ELSE FirstUnrecognized(Tail(steps))

\* `.map(|v| v.unwrap()).collect()`: the paths, or the panic of the unwrap
RECURSIVE UnwrapAll(_)
UnwrapAll(entries) ==
    IF entries = <<>> THEN Ok(<<>>)
    ELSE IF entries[1].st = "err" THEN Err(entries[1].err)
    ELSE LET rest == UnwrapAll(Tail(entries))
         IN  IF rest.st = "err" THEN rest ELSE Ok(<<entries[1].value>> \o rest.value)

\* gpr::RunParams; the fields copied from Args unread (velocity, dem, cor,
\* crs, quiet, track, no_export, render, override_antenna_mhz) are left out
RunParams(filepaths, a, steps, merge) ==
    [filepaths |-> filepaths, output_path |-> a.output, only_info |-> a.info,
     steps |-> steps, merge |-> merge]

\* args_to_action from the resolution of the step list on
StepsToAction(a, filepaths, merge) ==
    LET steps == ResolveSteps(a)
    IN  IF steps.st = "err"
        THEN Outcome(Error(steps.err), <<>>)
        ELSE LET bad == FirstUnrecognized(steps.value)
             IN  IF bad.some
                 THEN Outcome(Error(<<"Unrecognized step: ", bad.value>>), steps.out)
                 ELSE Outcome(Run(RunParams(filepaths, a, steps.value, merge)), steps.out)

\* args_to_action from the expansion of the file pattern on
FilesToAction(a, merge) ==
    IF ~a.filepath.some
    THEN Outcome(Error(<<"No filepath given.">>), <<>>)
    ELSE LET globbed == Glob(a.filepath.value)
         IN  IF globbed.st = "err"
             THEN Outcome(Panic(globbed.err), <<>>)
             ELSE LET paths == UnwrapAll(globbed.value)
                  IN  IF paths.st = "err"
                      THEN Outcome(Panic(paths.err), <<>>)
                      ELSE StepsToAction(a, paths.value, merge)

\* args_to_action from the parsing of --merge on
ProcessingAction(a) ==
    IF a.merge.some
    THEN LET parsed == ParseDuration(a.merge.value)
         IN  IF parsed.st = "err"
             THEN Outcome(Error(<<"Error parsing --merge string: ", parsed.err>>), <<>>)
             ELSE FilesToAction(a, Some(parsed.value))
    ELSE FilesToAction(a, None)

\* The discovery options looked at only after the rest was processed.
ArgsToActionDiscoveryLast(a) ==
    LET processed == ProcessingAction(a)
    IN  IF processed.action.st # "Run" THEN processed
        ELSE IF a.show_all_steps THEN ShowAllSteps
        ELSE IF a.show_default THEN ShowDefault
        ELSE processed

\* cli::args_to_action
ArgsToAction(a) ==
    IF a.show_all_steps THEN ShowAllSteps
    ELSE IF a.show_default THEN ShowDefault
    ELSE ProcessingAction(a)

\* clap's two argument groups: at most one argument of each may be given
StepChoiceOk(a) ==
    Cardinality({n \in {"steps", "default", "default_with_topo"} :
        IF n = "steps" THEN a.steps.some ELSE a[n]}) <= 1

ExitChoiceOk(a) ==
    Cardinality({n \in {"show_default", "info", "show_all_steps", "output"} :
        IF n = "output" THEN a.output.some ELSE a[n]}) <= 1

RECURSIVE SeqsUpTo(_, _)
SeqsUpTo(S, n) ==
    IF n = 0 THEN {<<>>}
    ELSE LET shorter == SeqsUpTo(S, n - 1)
         IN  shorter \cup {Append(q, x) : q \in shorter, x \in S}

StepsValues ==
    {None} \cup {Some(StepFile(f)) : f \in StepFiles}
           \cup {Some(Inline(ts)) : ts \in SeqsUpTo(Tokens, MaxSteps) \ {<<>>}}

ArgsValues ==
    [filepath : {None} \cup {Some(p) : p \in Patterns},
     info : BOOLEAN,
     default : BOOLEAN,
     default_with_topo : BOOLEAN,
     show_default : BOOLEAN,
     show_all_steps : BOOLEAN,
     steps : StepsValues,
     output : {None, Some("out.nc")},
     merge : {None, Some("10 min"), Some("soon")}]

(***************************************************************************)
(* abslog.  A float is a fraction as above, or NaN, written <<0, 0>>.      *)
(***************************************************************************)
NaN == <<0, 0>>

IsNaN(x) == x[1] = 0 /\ x[2] = 0

\* T::one()
One == <<1, 1>>

\* v.abs()
FAbs(x) == IF IsNaN(x) THEN NaN ELSE <<Abs(x[1]), x[2]>>

\* a >= b: false when either is NaN
FGe(a, b) == ~IsNaN(a) /\ ~IsNaN(b) /\ a[1] * b[2] >= b[1] * a[2]

\* a > b: false when either is NaN
FGt(a, b) == ~IsNaN(a) /\ ~IsNaN(b) /\ a[1] * b[2] > b[1] * a[2]

\* v.is_zero()
FIsZero(x) == ~IsNaN(x) /\ x[1] = 0

\* a + b
FAdd(a, b) == IF IsNaN(a) \/ IsNaN(b) THEN NaN ELSE FracAdd(a, b)

\* x.log10(), kept as the application to its argument
Log10(x) == [log10 |-> x]

\* data.mapv_inplace(|v| v.abs())
MapAbs(arr) ==
    Array2(arr.nrows, arr.ncols,
           [r \in 1..arr.nrows |-> [c \in 1..arr.ncols |-> FAbs(arr.rows[r][c])]])

\* data.mapv_inplace(|v| (v + minval).log10())
MapLog10(arr, floor) ==
    Array2(arr.nrows, arr.ncols,
           [r \in 1..arr.nrows |->
               [c \in 1..arr.ncols |-> Log10(FAdd(arr.rows[r][c], floor))]])

\* data.iter(): the elements row by row
RECURSIVE Concat(_)
Concat(rows) == IF rows = <<>> THEN <<>> ELSE rows[1] \o Concat(Tail(rows))

Iter(arr) == Concat(arr.rows)

\* .filter(|v| v >= &&T::zero())
RECURSIVE FilterNonNegative(_)
FilterNonNegative(s) ==
    IF s = <<>> THEN <<>>
    ELSE IF FGe(s[1], Zero) THEN <<s[1]>> \o FilterNonNegative(Tail(s))
    ELSE FilterNonNegative(Tail(s))

\* ((rows * cols) as f32 * 0.1).max(100.) as usize
Subsampling(arr) ==
    LET tenth == (arr.nrows * arr.ncols) \div 10
    IN  IF tenth > 100 THEN tenth ELSE 100

\* the quantiles tried, in percent: [0.01, 0.05, 0.5, 0.9]
Quantiles == <<1, 5, 50, 90>>

RECURSIVE InsertFloat(_, _)
InsertFloat(x, s) ==
    IF s = <<>> THEN <<x>>
    ELSE IF FGe(s[1], x) THEN <<x>> \o s
    ELSE <<s[1]>> \o InsertFloat(x, Tail(s))

RECURSIVE SortFloats(_)
SortFloats(s) == IF s = <<>> THEN <<>> ELSE InsertFloat(s[1], SortFloats(Tail(s)))

\* at most n of the values, evenly spread
Subsample(values, n) ==
    IF Len(values) <= n THEN values
    ELSE LET stride == DivCeil(Len(values), n)
         IN  [k \in 1..DivCeil(Len(values), stride) |-> values[(k - 1) * stride + 1]]

\* tools::quantiles(values, &[quantile], Some(subsampling))[0]: what the call
\* may give.  Of a non-empty sample it is the sorted value at rank
\* quantile * (n - 1), rounded down or up; of an empty one nothing is known,
\* so it may panic or give NaN.
QuantileOutcomes(values, percent, subsampling) ==
    LET sorted == SortFloats(Subsample(values, subsampling))
        n == Len(sorted)
    IN  IF n = 0
        THEN {Panicked(<<"quantile of no values">>), Returned(NaN)}
        ELSE {Returned(sorted[(percent * (n - 1)) \div 100 + 1]),
              Returned(sorted[DivCeil(percent * (n - 1), 100) + 1])}

\* The floor starting at zero.
MinvalInitZero == Zero

\* let mut minval = T::one()
MinvalInit == One

(***************************************************************************)
(* siglog.  Besides the fractions and NaN a float may be infinite:         *)
(* <<1, 0>> is +inf and <<-1, 0>> is -inf.                                 *)
(***************************************************************************)
PosInf == <<1, 0>>

NegInf == <<-1, 0>>

IsInf(x) == x[2] = 0 /\ x[1] # 0

\* -a
FNeg(a) == <<-a[1], a[2]>>

\* a < b for two floats that are not NaN
FLess(a, b) ==
    IF a = b THEN FALSE
    ELSE IF a = NegInf \/ b = PosInf THEN TRUE
    ELSE IF a = PosInf \/ b = NegInf THEN FALSE
    ELSE a[1] * b[2] < b[1] * a[2]

\* a - b
FSub(a, b) ==
    IF IsNaN(a) \/ IsNaN(b) THEN NaN
    ELSE IF IsInf(a) THEN (IF a = b THEN NaN ELSE a)
    ELSE IF IsInf(b) THEN FNeg(b)
    ELSE FracAdd(a, FNeg(b))

\* a.max(b): a NaN operand is ignored
FMax(a, b) ==
    IF IsNaN(a) THEN b
    ELSE IF IsNaN(b) THEN a
    ELSE IF FLess(a, b) THEN b ELSE a

\* a * b
FMul(a, b) ==
    IF IsNaN(a) \/ IsNaN(b) THEN NaN
    ELSE IF (IsInf(a) /\ b = Zero) \/ (IsInf(b) /\ a = Zero) THEN NaN
    ELSE IF IsInf(a) \/ IsInf(b)
         THEN (IF (a[1] < 0) = (b[1] < 0) THEN PosInf ELSE NegInf)
         ELSE Frac(a[1] * b[1], a[2] * b[2])

\* The sign left out: every number counts as positive.
FSignumAlwaysOne(x) == IF IsNaN(x) THEN NaN ELSE One

\* v.signum(): 1 for +0 and the positive numbers, -1 for the negative ones
FSignum(x) ==
    IF IsNaN(x) THEN NaN
    ELSE IF x[1] < 0 THEN FromInt(-1) ELSE One

\* 10^k as a fraction
RECURSIVE Pow10(_)
Pow10(k) ==
    IF k = 0 THEN One
    ELSE IF k > 0 THEN <<10 * Pow10(k - 1)[1], 1>>
    ELSE <<1, 10 * Pow10(k + 1)[2]>>

\* the exponent k of a fraction that is 10^k (the numbers of the model are
\* zero and the powers of ten, whose logarithm is exact)
RECURSIVE ExponentOfPow10(_)
ExponentOfPow10(x) ==
    IF x[2] = 1 /\ x[1] > 1 /\ x[1] % 10 = 0 THEN 1 + ExponentOfPow10(<<x[1] \div 10, 1>>)
    ELSE IF x[1] = 1 /\ x[2] > 1 /\ x[2] % 10 = 0
         THEN ExponentOfPow10(<<1, x[2] \div 10>>) - 1
         ELSE 0

\* x.log10(), computed: NaN of NaN and of a negative number, -inf of 0
Log10Value(x) ==
    IF IsNaN(x) \/ x[1] < 0 THEN NaN
    ELSE IF x = Zero THEN NegInf
    ELSE IF x = PosInf THEN PosInf
    ELSE FromInt(ExponentOfPow10(x))

\* |v| (v.abs().log10() - minval_log10).max(T::zero()) * v.signum()
SiglogValue(x, floor) ==
    FMul(FMax(FSub(Log10Value(FAbs(x)), floor), Zero), FSignum(x))

\* data.mapv_inplace(|v| ...)
MapSiglog(arr, floor) ==
    Array2(arr.nrows, arr.ncols,
           [r \in 1..arr.nrows |->
               [c \in 1..arr.ncols |-> SiglogValue(arr.rows[r][c], floor)]])

(***************************************************************************)
(* The inputs.                                                             *)
(***************************************************************************)
\* The array of the given shape holding the integer samples f[r][c].
ArrayOf(nr, nc, f) == Array2(nr, nc, [r \in 1..nr |-> [c \in 1..nc |-> FromInt(f[r][c])]])

\* A per-trace sequence of the given length: entry i is trace number i.
Traces(len) == [k \in 1..len |-> k - 1]

EmptyArray == Array2(0, 0, <<>>)

(***************************************************************************)
(* The calls.                                                              *)
(***************************************************************************)
CallAverageTraces ==
    /\ averaged.st = "pending"
    /\ averaged' = AverageTraces(data, window)
    /\ UNCHANGED <<data, window, v, subset>>
    /\ UNCHANGED cliVars
    /\ UNCHANGED absVars
    /\ UNCHANGED sigVars

CallWindowSubsetVec ==
    /\ subset.st = "pending"
    /\ subset' = WindowSubsetVec(v, window)
    /\ UNCHANGED <<data, window, averaged, v>>
    /\ UNCHANGED cliVars
    /\ UNCHANGED absVars
    /\ UNCHANGED sigVars

\* A profile and its per-trace metadata, reduced with the same window.
InitAverage ==
    /\ \E nr \in 0..MaxRows, nc \in 0..MaxCols :
        \E f \in [1..nr -> [1..nc -> Samples]] : data = ArrayOf(nr, nc, f)
    /\ window \in 0..MaxWindow
    /\ v = Traces(data.ncols)
    /\ averaged = Pending
    /\ subset = Pending
    /\ entry = "none"
    /\ args = Unused
    /\ action = Unused
    /\ stdout = <<>>
    /\ ran = None
    /\ result = Unused
    /\ abspc = "unused"
    /\ absdata = EmptyArray
    /\ minval = Zero
    /\ tried = <<>>
    /\ minval_log10 = Zero
    /\ siglogged = Unused

NextAverage == CallAverageTraces \/ CallWindowSubsetVec

SpecAverage == InitAverage /\ [][NextAverage]_vars

\* window_subset_vec alone, on a sequence of any length.
InitSubset ==
    /\ data = EmptyArray
    /\ window \in 0..MaxWindow
    /\ v \in {Traces(len) : len \in 0..MaxLen}
    /\ averaged = Unused
    /\ subset = Pending
    /\ entry = "none"
    /\ args = Unused
    /\ action = Unused
    /\ stdout = <<>>
    /\ ran = None
    /\ result = Unused
    /\ abspc = "unused"
    /\ absdata = EmptyArray
    /\ minval = Zero
    /\ tried = <<>>
    /\ minval_log10 = Zero
    /\ siglogged = Unused

NextSubset == CallWindowSubsetVec

SpecSubset == InitSubset /\ [][NextSubset]_vars

\* cli::main: the exit code for an action, given whether gpr::run succeeds;
\* a panic inside args_to_action aborts the process instead
MainResult(act, run_ok) ==
    CASE act.st = "Run" -> [st |-> "exit", code |-> IF run_ok THEN 0 ELSE 1]
      [] act.st = "Error" -> [st |-> "exit", code |-> 1]
      [] act.st = "Done" -> [st |-> "exit", code |-> 0]
      [] act.st = "panic" -> [st |-> "aborted"]

\* radal::run_cli: Ok(exit code) or the Python exception raised
RunCliResult(act, run_ok) ==
    CASE act.st = "Run" ->
            IF run_ok THEN [st |-> "py_ok", code |-> 0]
            ELSE [st |-> "py_err", exception |-> "PyRuntimeError"]
      [] act.st = "Error" -> [st |-> "py_err", exception |-> "PyValueError"]
      [] act.st = "Done" -> [st |-> "py_ok", code |-> 0]
      [] act.st = "panic" -> [st |-> "py_err", exception |-> "PanicException"]

\* the call of args_to_action that opens main and run_cli
CallArgsToAction ==
    /\ action.st = "pending"
    /\ LET outcome == ArgsToAction(args)
       IN  /\ action' = outcome.action
           /\ stdout' = outcome.out
    /\ UNCHANGED <<entry, args, ran, result>>
    /\ UNCHANGED filterVars
    /\ UNCHANGED absVars
    /\ UNCHANGED sigVars

\* the match of main on the action; gpr::run may succeed or fail
Main ==
    /\ entry = "main"
    /\ action.st \notin {"pending", "unused"}
    /\ result.st = "pending"
    /\ \E run_ok \in BOOLEAN : result' = MainResult(action, run_ok)
    /\ ran' = IF action.st = "Run" THEN Some(action.params) ELSE None
    /\ UNCHANGED <<entry, args, action, stdout>>
    /\ UNCHANGED filterVars
    /\ UNCHANGED absVars
    /\ UNCHANGED sigVars

\* the match of run_cli on the action
RunCli ==
    /\ entry = "run_cli"
    /\ action.st \notin {"pending", "unused"}
    /\ result.st = "pending"
    /\ \E run_ok \in BOOLEAN : result' = RunCliResult(action, run_ok)
    /\ ran' = IF action.st = "Run" THEN Some(action.params) ELSE None
    /\ UNCHANGED <<entry, args, action, stdout>>
    /\ UNCHANGED filterVars
    /\ UNCHANGED absVars
    /\ UNCHANGED sigVars

\* An invocation: Args as clap parses them (the two groups enforced) handed
\* to main, or Args as run_cli builds them from any Python arguments.
InitCli ==
    /\ entry \in {"main", "run_cli"}
    /\ args \in ArgsValues
    /\ entry = "main" => (StepChoiceOk(args) /\ ExitChoiceOk(args))
    /\ action = Pending
    /\ stdout = <<>>
    /\ ran = None
    /\ result = Pending
    /\ data = EmptyArray
    /\ window = 0
    /\ averaged = Unused
    /\ v = <<>>
    /\ subset = Unused
    /\ abspc = "unused"
    /\ absdata = EmptyArray
    /\ minval = Zero
    /\ tried = <<>>
    /\ minval_log10 = Zero
    /\ siglogged = Unused

NextCli == CallArgsToAction \/ Main \/ RunCli

SpecCli == InitCli /\ [][NextCli]_vars

\* The sample values abslog's arrays are filled with.
FloatSamples == {NaN, FromInt(-2), Zero, FromInt(3)}

\* data.mapv_inplace(|v| v.abs()); let mut minval = T::one()
AbslogAbs ==
    /\ abspc = "abs"
    /\ absdata' = MapAbs(absdata)
    /\ minval' = MinvalInit
    /\ abspc' = "quantiles"
    /\ UNCHANGED tried
    /\ UNCHANGED filterVars
    /\ UNCHANGED cliVars
    /\ UNCHANGED sigVars

\* one iteration of `for quantile in [0.01, 0.05, 0.5, 0.9]`
AbslogQuantile ==
    /\ abspc = "quantiles"
    /\ LET quantile == Quantiles[Len(tried) + 1]
       IN  \E got \in QuantileOutcomes(FilterNonNegative(Iter(absdata)), quantile,
                                       Subsampling(absdata)) :
               IF got.st = "panicked"
               THEN /\ abspc' = "panicked"
                    /\ UNCHANGED <<minval, tried>>
               ELSE LET new_min == got.value
                    IN  /\ tried' = Append(tried, <<quantile, new_min>>)
                        /\ IF ~FIsZero(new_min)
                           THEN /\ minval' = new_min
                                /\ abspc' = "log"
                           ELSE /\ minval' = minval
                                /\ abspc' = IF Len(tried) + 1 = Len(Quantiles)
                                            THEN "log" ELSE "quantiles"
    /\ UNCHANGED absdata
    /\ UNCHANGED filterVars
    /\ UNCHANGED cliVars
    /\ UNCHANGED sigVars

\* data.mapv_inplace(|v| (v + minval).log10())
AbslogLog ==
    /\ abspc = "log"
    /\ absdata' = MapLog10(absdata, minval)
    /\ abspc' = "done"
    /\ UNCHANGED <<minval, tried>>
    /\ UNCHANGED filterVars
    /\ UNCHANGED cliVars
    /\ UNCHANGED sigVars

\* abslog on an array of at most MaxCells samples; data keeps the input.
InitAbslog ==
    /\ \E nr \in 0..MaxCells, nc \in 0..MaxCells :
        /\ nr * nc <= MaxCells
        /\ \E f \in [1..nr -> [1..nc -> FloatSamples]] : data = Array2(nr, nc, f)
    /\ absdata = data
    /\ abspc = "abs"
    /\ minval = Zero
    /\ tried = <<>>
    /\ window = 0
    /\ averaged = Unused
    /\ v = <<>>
    /\ subset = Unused
    /\ entry = "none"
    /\ args = Unused
    /\ action = Unused
    /\ stdout = <<>>
    /\ ran = None
    /\ result = Unused
    /\ minval_log10 = Zero
    /\ siglogged = Unused

NextAbslog == AbslogAbs \/ AbslogQuantile \/ AbslogLog

SpecAbslog == InitAbslog /\ [][NextAbslog]_vars

\* The sample values siglog's arrays are filled with: NaN, the infinities,
\* zero and plus or minus the powers of ten 10^-MaxExp .. 10^MaxExp.
SiglogSamples ==
    {NaN, PosInf, NegInf, Zero}
        \cup {Pow10(k) : k \in (-MaxExp)..MaxExp}
        \cup {FNeg(Pow10(k)) : k \in (-MaxExp)..MaxExp}

\* The floors siglog is called with.
SiglogFloors == {FromInt(k) : k \in (-MaxExp)..MaxExp}

\* siglog(&mut data, minval_log10)
CallSiglog ==
    /\ siglogged.st = "pending"
    /\ siglogged' = Returned(MapSiglog(data, minval_log10))
    /\ UNCHANGED minval_log10
    /\ UNCHANGED filterVars
    /\ UNCHANGED cliVars
    /\ UNCHANGED absVars

\* siglog on an array of at most MaxSigCells samples; data keeps the input.
InitSiglog ==
    /\ \E nr \in 0..MaxSigCells, nc \in 0..MaxSigCells :
        /\ nr * nc <= MaxSigCells
        /\ \E f \in [1..nr -> [1..nc -> SiglogSamples]] : data = Array2(nr, nc, f)
    /\ minval_log10 \in SiglogFloors
    /\ siglogged = Pending
    /\ window = 0
    /\ averaged = Unused
    /\ v = <<>>
    /\ subset = Unused
    /\ entry = "none"
    /\ args = Unused
    /\ action = Unused
    /\ stdout = <<>>
    /\ ran = None
    /\ result = Unused
    /\ abspc = "unused"
    /\ absdata = EmptyArray
    /\ minval = Zero
    /\ tried = <<>>

NextSiglog == CallSiglog

SpecSiglog == InitSiglog /\ [][NextSiglog]_vars

(***************************************************************************)
(* Properties of the two reductions.                                       *)
(***************************************************************************)
\* ceil(a / b) for b >= 1, stated without division
CeilOf(a, b) == CHOOSE n \in 0..a : n * b >= a /\ (n = 0 \/ (n - 1) * b < a)

\* the sum of the integer samples of columns lo..hi (0-based) of a row
RECURSIVE BlockSum(_, _, _)
BlockSum(row, lo, hi) ==
    IF lo > hi THEN 0 ELSE row[lo + 1][1] + BlockSum(row, lo + 1, hi)

AverageCalled == averaged.st \notin {"pending", "unused"}

SubsetCalled == subset.st # "pending"

\* C1: for 2 <= window <= cols, average_traces returns Ok with an array of
\* shape rows x ceil(cols/window) in which column i of every row is the
\* arithmetic mean of input columns i*window .. min((i+1)*window, cols)-1;
\* every output column has a non-empty block, so none keeps its initial zero
\* unless its block's mean is zero.
C1_AverageIsBlockMean ==
    (AverageCalled /\ 2 <= window /\ window <= data.ncols) =>
        /\ averaged.st = "ok"
        /\ averaged.value.nrows = data.nrows
        /\ averaged.value.ncols = CeilOf(data.ncols, window)
        /\ Len(averaged.value.rows) = data.nrows
        /\ \A r \in 1..data.nrows :
            /\ Len(averaged.value.rows[r]) = CeilOf(data.ncols, window)
            /\ \A i \in 0..(CeilOf(data.ncols, window) - 1) :
                LET lo == i * window
                    hi == Min((i + 1) * window, data.ncols) - 1
                    out == averaged.value.rows[r][i + 1]
                IN  /\ lo <= hi
                    /\ out[2] > 0
                    /\ out[1] * (hi - lo + 1) = out[2] * BlockSum(data.rows[r], lo, hi)

\* C1 witness: two rows, a last block narrower than the window, two output
\* columns, and a last column that is not zero.
C1_Witness ==
    /\ averaged.st = "ok"
    /\ data.nrows = 2
    /\ data.ncols = 4
    /\ window = 3
    /\ averaged.value.rows[2][2] = FromInt(2)
    /\ averaged.value.rows[1][1] = Zero

\* C2: average_traces returns an error (and no array) exactly when
\* window < 2 or window > cols; window < 2 is checked first and gives the
\* "needs to be >= 2" message whatever the column count, window > cols gives
\* the "larger than the data width" message.
C2_AverageErrors ==
    AverageCalled =>
        /\ averaged.st \in {"ok", "err"}
        /\ (averaged.st = "err") <=> (window < 2 \/ window > data.ncols)
        /\ window < 2 =>
            /\ DOMAIN averaged = {"st", "err"}
            /\ averaged.err = <<"Window size (", window, ") needs to be >= 2">>
        /\ (window >= 2 /\ window > data.ncols) =>
            /\ DOMAIN averaged = {"st", "err"}
            /\ averaged.err = <<"Averaging window (", window,
                                ") is larger than the data width (", data.ncols, ")">>

\* C2 witness: a window of 1 that is also larger than the data width.
C2_Witness ==
    /\ averaged.st = "err"
    /\ window = 1
    /\ data.ncols = 0
    /\ averaged.err[1] = "Window size ("

\* C3: for len >= 1 and window >= 1, window_subset_vec returns ceil(len/window)
\* elements; output k is the input element at original index
\* k*window + (w_k - 1) div 2 with w_k = min(window, len - k*window); the
\* original indices are strictly increasing and the removal loop never panics.
C3_SubsetPicksBlockMiddles ==
    (SubsetCalled /\ Len(v) >= 1 /\ window >= 1) =>
        /\ subset.st = "returned"
        /\ Len(subset.value) = CeilOf(Len(v), window)
        /\ \A k \in 0..(Len(subset.value) - 1) :
            LET w_k == Min(window, Len(v) - k * window)
                at == k * window + (w_k - 1) \div 2
            IN  /\ w_k >= 1
                /\ at < Len(v)
                /\ subset.value[k + 1] = v[at + 1]
        /\ \A k \in 1..(Len(subset.value) - 1) : subset.value[k] < subset.value[k + 1]

\* C3 witness: seven elements in windows of three, the last block of one.
C3_Witness ==
    /\ Len(v) = 7
    /\ window = 3
    /\ subset.st = "returned"
    /\ subset.value = <<1, 4, 6>>

\* C4 as stated: on an empty sequence window_subset_vec returns an empty
\* sequence for every window, 0 included.
C4_EmptyGivesEmptyForEveryWindow ==
    (SubsetCalled /\ Len(v) = 0) => subset = Returned(<<>>)

\* C4 amended: on an empty sequence window_subset_vec returns an empty
\* sequence for every window >= 1; with window = 0 the assertion at the top
\* of the function fails and the call panics, the empty sequence included.
C4_EmptyGivesEmptyForPositiveWindow ==
    (SubsetCalled /\ Len(v) = 0) =>
        IF window >= 1
        THEN subset = Returned(<<>>)
        ELSE subset = Panicked(<<"window must be >= 1">>)

\* C4 witness: an empty sequence, reduced with a window of 3.
C4_Witness ==
    /\ Len(v) = 0
    /\ window = 3
    /\ subset.st = "returned"
    /\ subset.value = <<>>

\* C5: whenever average_traces succeeds (2 <= window <= cols), the metadata
\* sequence of length cols reduced by window_subset_vec with the same window
\* has as many entries as the averaged profile has columns, and entry k comes
\* from inside the block of input columns averaged into output column k.
C5_MetadataStaysAligned ==
    (AverageCalled /\ SubsetCalled /\ 2 <= window /\ window <= data.ncols) =>
        /\ averaged.st = "ok"
        /\ subset.st = "returned"
        /\ Len(v) = data.ncols
        /\ Len(subset.value) = averaged.value.ncols
        /\ \A k \in 0..(averaged.value.ncols - 1) :
            /\ k * window <= subset.value[k + 1]
            /\ subset.value[k + 1] < Min((k + 1) * window, data.ncols)

\* C5 witness: four traces averaged in windows of three; two columns and two
\* metadata entries are left.
C5_Witness ==
    /\ averaged.st = "ok"
    /\ subset.st = "returned"
    /\ data.ncols = 4
    /\ window = 3
    /\ averaged.value.ncols = 2
    /\ subset.value = <<1, 3>>

(***************************************************************************)
(* Properties of the command line front end.                               *)
(***************************************************************************)
ActionCalled == action.st \notin {"pending", "unused"}

Dispatched == result.st \notin {"pending", "unused"}

MergeParses == ~args.merge.some \/ ParseDuration(args.merge.value).st = "ok"

PatternGiven == args.filepath.some

PatternMalformed == PatternGiven /\ Glob(args.filepath.value).st = "err"

PatternMatchesNothing ==
    PatternGiven /\ Glob(args.filepath.value).st = "ok" /\ Glob(args.filepath.value).value = <<>>

PatternResolves ==
    /\ PatternGiven
    /\ Glob(args.filepath.value).st = "ok"
    /\ \A k \in 1..Len(Glob(args.filepath.value).value) :
           Glob(args.filepath.value).value[k].st = "ok"

\* args_to_action gets as far as the step list
ReachesSteps ==
    ~args.show_all_steps /\ ~args.show_default /\ MergeParses /\ PatternResolves

DefaultPlusTopography == DefaultProcessingProfile \o <<NameCorrectTopography>>

\* a token holds some registry name as a substring
HasRegistryName(token) ==
    \E k \in 1..Len(AllAvailableSteps) :
        \E from \in 1..Len(token), to \in 1..Len(token) :
            SubSeq(token, from, to) = AllAvailableSteps[k][1]

\* C6 as stated: without info, the steps put into RunParams are the explicit
\* step list if given, else the default profile with topographic correction
\* if default_with_topo, else the default profile if default, else empty.
C6_ExplicitStepsFirst ==
    (ActionCalled /\ ~args.info /\ action.st = "Run") =>
        IF args.steps.some
        THEN /\ ParseStepList(args.steps.value).st = "ok"
             /\ action.params.steps = ParseStepList(args.steps.value).value
        ELSE IF args.default_with_topo
             THEN action.params.steps = DefaultPlusTopography
             ELSE IF args.default
                  THEN action.params.steps = DefaultProcessingProfile
                  ELSE action.params.steps = <<>>

\* C6 amended: without info, the steps put into RunParams are the default
\* profile with topographic correction if default_with_topo is set, else the
\* default profile if default is set, else the explicit step list if given,
\* else empty; an explicit list given together with a default option is not
\* read at all.
C6_DefaultsBeforeExplicitSteps ==
    (ActionCalled /\ ~args.info /\ action.st = "Run") =>
        IF args.default_with_topo
        THEN action.params.steps = DefaultPlusTopography
        ELSE IF args.default
             THEN action.params.steps = DefaultProcessingProfile
             ELSE IF args.steps.some
                  THEN /\ ParseStepList(args.steps.value).st = "ok"
                       /\ action.params.steps = ParseStepList(args.steps.value).value
                  ELSE action.params.steps = <<>>

\* C6 witness: run_cli called with an explicit list and both default options.
C6_Witness ==
    /\ entry = "run_cli"
    /\ ~args.info
    /\ args.steps.some
    /\ args.default
    /\ args.default_with_topo
    /\ action.st = "Run"
    /\ action.params.steps = DefaultPlusTopography

\* the step list args_to_action resolves, when it resolves one
ResolvedSteps ==
    IF args.info THEN Some(<<>>)
    ELSE IF args.default_with_topo THEN Some(DefaultPlusTopography)
    ELSE IF args.default THEN Some(DefaultProcessingProfile)
    ELSE IF ~args.steps.some THEN Some(<<>>)
    ELSE IF ParseStepList(args.steps.value).st = "ok"
         THEN Some(ParseStepList(args.steps.value).value)
         ELSE None

\* C7: args_to_action returns Run only if every token of the resolved step
\* list holds a registry name as a substring, and then with that list (so
\* 'average_traces:5' passes); if some token holds none the outcome is the
\* Error naming the first such token; gpr::run is only ever called with a
\* fully validated list.
C7_ValidationAllOrNothing ==
    ActionCalled =>
        /\ action.st = "Run" =>
            \A k \in 1..Len(action.params.steps) : HasRegistryName(action.params.steps[k])
        /\ ran.some =>
            /\ action.st = "Run"
            /\ ran.value = action.params
            /\ \A k \in 1..Len(ran.value.steps) : HasRegistryName(ran.value.steps[k])
        /\ (ReachesSteps /\ ResolvedSteps.some) =>
            LET steps == ResolvedSteps.value
                bad == {k \in 1..Len(steps) : ~HasRegistryName(steps[k])}
            IN  IF bad = {}
                THEN action.st = "Run" /\ action.params.steps = steps
                ELSE LET first == CHOOSE k \in bad : \A j \in bad : k <= j
                     IN  action = Error(<<"Unrecognized step: ", steps[first]>>)

\* C7 witness: an explicit list with a parameterised token, run by main.
C7_Witness ==
    /\ entry = "main"
    /\ args.steps = Some(Inline(<<NameAbslog, NameAverageTraces \o <<":", "5">> >>))
    /\ action.st = "Run"
    /\ ran.some
    /\ ran.value.steps = <<NameAbslog, NameAverageTraces \o <<":", "5">> >>

\* C8: whenever show_all_steps or show_default is set, args_to_action returns
\* Done whatever the other arguments are, having printed the step catalog if
\* show_all_steps is set and the default profile otherwise; main then returns
\* exit code 0 (run_cli returns 0) and gpr::run is not called.
C8_DiscoveryEndsTheInvocation ==
    (ActionCalled /\ (args.show_all_steps \/ args.show_default)) =>
        /\ action = Done
        /\ IF args.show_all_steps
           THEN /\ Len(stdout) = Len(AllAvailableSteps) + 1
                /\ stdout[1] = <<"Name\t\tDescription">>
                /\ \A k \in 1..Len(AllAvailableSteps) :
                       /\ stdout[k + 1][1] = AllAvailableSteps[k][1]
                       /\ stdout[k + 1][3] = AllAvailableSteps[k][2]
           ELSE /\ Len(stdout) = Len(DefaultProcessingProfile)
                /\ \A k \in 1..Len(DefaultProcessingProfile) :
                       stdout[k] = <<DefaultProcessingProfile[k]>>
        /\ Dispatched =>
            /\ ran = None
            /\ result = IF entry = "main" THEN [st |-> "exit", code |-> 0]
                        ELSE [st |-> "py_ok", code |-> 0]

\* C8 witness: --show-default with no filepath, a malformed --merge and an
\* unrecognised step; main has returned.
C8_Witness ==
    /\ entry = "main"
    /\ args.show_default
    /\ ~args.filepath.some
    /\ args.merge = Some("soon")
    /\ args.steps = Some(Inline(<< <<"s", "i", "g">> >>))
    /\ action = Done
    /\ result = [st |-> "exit", code |-> 0]

\* C9 as stated: when the file pattern is malformed or matches no file,
\* args_to_action ends in CliAction::Error; it neither returns Run with an
\* empty file list nor panics.
C9_UnresolvedInputIsAnError ==
    (/\ ActionCalled
     /\ ~args.show_all_steps
     /\ ~args.show_default
     /\ MergeParses
     /\ (PatternMalformed \/ PatternMatchesNothing)) =>
        action.st = "Error"

(***************************************************************************)
(* Properties of abslog.                                                   *)
(***************************************************************************)
\* the loop tried the quantiles 1%, 5%, 50%, 90% in that order and went on
\* only past zero results; the floor is the first non-zero result, or the
\* initial 1 when all four were zero
FloorIsFirstNonZeroQuantile ==
    /\ Len(tried) <= 4
    /\ \A k \in 1..Len(tried) : tried[k][1] = <<1, 5, 50, 90>>[k]
    /\ \A k \in 1..(Len(tried) - 1) : tried[k][2] = <<0, 1>>
    /\ abspc \in {"log", "done"} =>
        IF Len(tried) > 0 /\ tried[Len(tried)][2] # <<0, 1>>
        THEN minval = tried[Len(tried)][2]
        ELSE Len(tried) = 4 /\ minval = <<1, 1>>

FloorIsPositive == abspc \in {"log", "done"} => (minval[2] > 0 /\ minval[1] > 0)

\* every sample went into log10 as its absolute value plus the floor, a
\* strictly positive number
ArgumentsArePositive ==
    abspc = "done" =>
        \A r \in 1..data.nrows : \A c \in 1..data.ncols :
            LET arg == absdata.rows[r][c].log10
                sample == data.rows[r][c]
            IN  /\ arg[2] > 0
                /\ arg[1] > 0
                /\ sample[2] > 0
                /\ arg[1] * sample[2] * minval[2] =
                       arg[2] * (Abs(sample[1]) * minval[2] + minval[1] * sample[2])

HasNaN(arr) == \E r \in 1..arr.nrows : \E c \in 1..arr.ncols : arr.rows[r][c][2] = 0

HasNumber(arr) == \E r \in 1..arr.nrows : \E c \in 1..arr.ncols : arr.rows[r][c][2] # 0

Log10OfMagnitude(s) ==
    CHOOSE k \in (-MaxExp)..MaxExp : <<Abs(s[1]), s[2]>> = Pow10(k)

\* C11: siglog replaces every sample v by sign(v) * max(0, log10(|v|) - floor):
\* the result is 0 when v = 0 or log10(|v|) <= floor, and otherwise has the
\* sign of v and the magnitude log10(|v|) - floor; it never has the opposite
\* sign of v.  (A NaN sample stays NaN and an infinite one stays infinite,
\* as the same expression gives in float arithmetic.)
C11_SiglogKeepsSignAndCompresses ==
    siglogged.st = "returned" =>
        /\ siglogged.value.nrows = data.nrows
        /\ siglogged.value.ncols = data.ncols
        /\ \A r \in 1..data.nrows : \A c \in 1..data.ncols :
            LET sample == data.rows[r][c]
                out == siglogged.value.rows[r][c]
                floor == minval_log10[1]
            IN  /\ ~(sample[1] > 0 /\ out[1] < 0)
                /\ ~(sample[1] < 0 /\ out[1] > 0)
                /\ IF sample[2] = 0
                   THEN out = sample
                   ELSE IF sample[1] = 0
                        THEN out = <<0, 1>>
                        ELSE IF Log10OfMagnitude(sample) <= floor
                             THEN out = <<0, 1>>
                             ELSE /\ out[2] = 1
                                  /\ (out[1] > 0) = (sample[1] > 0)
                                  /\ Abs(out[1]) = Log10OfMagnitude(sample) - floor

\* C11 witness: -1000 and 0.1 with the floor -2 have become -5 and 1.
C11_Witness ==
    /\ siglogged.st = "returned"
    /\ minval_log10 = <<-2, 1>>
    /\ data.nrows = 1
    /\ data.ncols = 2
    /\ data.rows[1] = << <<-1000, 1>>, <<1, 10>> >>
    /\ siglogged.value.rows[1] = << <<-5, 1>>, <<1, 1>> >>

====
